---- MODULE Spec2Model ----
(***************************************************************************)
(* A model of osfclient's command line interface (src/cli.py): one         *)
(* invocation of one of clone, fetch, list, upload, remove, run through    *)
(* the might_need_auth wrapper, against a local filesystem and a remote    *)
(* project made of storage providers.                                      *)
(*                                                                         *)
(* Python strings are sequences of one-character strings.  The platform    *)
(* is POSIX: os.sep is "/", and os.path.join / os.path.split are           *)
(* posixpath's.                                                            *)
(***************************************************************************)
EXTENDS Naturals, Sequences, FiniteSets, TLC

\* ------------------------------------------------------------------ bounds
\* longest file listing of one storage provider
MaxFiles == 2
\* most directories os.walk visits in a recursive upload
MaxWalk == 2

\* ----------------------------------------------------------------- strings
\* Python's None, for every optional string value
None == <<"None">>

\* os.sep on the modelled platform
OsSep == <<"/">>

Slash == <<"/">>

StartsWith(s, p) ==
    /\ Len(p) <= Len(s)
    /\ SubSeq(s, 1, Len(p)) = p

EndsWith(s, p) ==
    /\ Len(p) <= Len(s)
    /\ SubSeq(s, Len(s) - Len(p) + 1, Len(s)) = p

\* s[i:] with a 0-based Python index
From(s, i) == SubSeq(s, i + 1, Len(s))

\* str.replace('', new): new around every character
RECURSIVE Interleave(_, _)
Interleave(s, new) ==
    IF s = <<>> THEN new ELSE new \o <<Head(s)>> \o Interleave(Tail(s), new)

\* str.replace(old, new): every non-overlapping occurrence, left to right
RECURSIVE Replace(_, _, _)
Replace(s, old, new) ==
    IF old = <<>> THEN Interleave(s, new)
    ELSE IF Len(s) < Len(old) THEN s
    ELSE IF StartsWith(s, old) THEN new \o Replace(From(s, Len(old)), old, new)
    ELSE <<Head(s)>> \o Replace(Tail(s), old, new)

\* str.rfind("/") + 1: the length of the part up to and including the last "/"
RECURSIVE RFindSep(_)
RFindSep(s) ==
    IF s = <<>> THEN 0
    ELSE IF s[Len(s)] = "/" THEN Len(s)
    ELSE RFindSep(SubSeq(s, 1, Len(s) - 1))

\* str.rstrip("/")
RECURSIVE RStripSep(_)
RStripSep(s) ==
    IF s # <<>> /\ s[Len(s)] = "/" THEN RStripSep(SubSeq(s, 1, Len(s) - 1)) ELSE s

AllSep(s) == \A i \in 1..Len(s) : s[i] = "/"

\* os.path.split(p): <<head, tail>>
PathSplit(p) ==
    LET i == RFindSep(p)
        head == SubSeq(p, 1, i)
        tail == From(p, i)
    IN  << IF head # <<>> /\ ~AllSep(head) THEN RStripSep(head) ELSE head, tail >>

\* os.path.join(a, b): an absolute b discards a
PathJoin(a, b) ==
    IF StartsWith(b, Slash) THEN b
    ELSE IF a = <<>> \/ EndsWith(a, Slash) THEN a \o b
    ELSE a \o Slash \o b

\* os.path.join(a, b, c, d)
PathJoin4(a, b, c, d) == PathJoin(PathJoin(PathJoin(a, b), c), d)

\* path[1:] if path.startswith('/')
StripLeadingSlash(path) ==
    IF StartsWith(path, Slash) THEN From(path, 1) ELSE path

\* the proper ancestors and the path itself, as makedirs creates them
Ancestors(d) ==
    { SubSeq(d, 1, i) : i \in { j \in 1..Len(d) : j = Len(d) \/ d[j + 1] = "/" } }
        \ { <<>> }

\* ------------------------------------------------------- utils (not in src)
Osfstorage == <<"o", "s", "f", "s", "t", "o", "r", "a", "g", "e">>
Github == <<"g", "i", "t", "h", "u", "b">>

\* the provider names split_storage recognises
KnownProviders == {Osfstorage, Github}

\* norm_remote_path: platform separators become "/", one leading "/" is removed
norm_remote_path(path) == StripLeadingSlash(Replace(path, OsSep, Slash))

\* the index of the first "/" of s, 0 when there is none
RECURSIVE FindSep(_, _)
FindSep(s, i) ==
    IF i > Len(s) THEN 0 ELSE IF s[i] = "/" THEN i ELSE FindSep(s, i + 1)

\* split_storage: <<provider, remainder>>
split_storage(userPath) ==
    LET path == norm_remote_path(userPath)
        i == FindSep(path, 1)
    IN  IF i > 0 /\ SubSeq(path, 1, i - 1) \in KnownProviders
        THEN <<SubSeq(path, 1, i - 1), From(path, i)>>
        ELSE <<Osfstorage, path>>

\* OSF(username=..., password=...): the session keeps the credentials it is given
OSF(username, password) == [username |-> username, password |-> password]

\* ---------------------------------------------------------------- messages
MsgNoProject == "You have to specify a project ID"
MsgSetUsername == "Please set a username"
MsgNotAuthorized == "You are not authorized to access this project."
MsgExists == "Local file already exists, not overwriting."
MsgUploadCreds == "To upload a file you need to provide a username and password."
MsgRemoveCreds == "To remove a file you need to provide a username and password."

\* ------------------------------------------------------------------ inputs
Ops == {"clone", "fetch", "list", "upload", "remove"}

\* what a remote call does: it returns, raises UnauthorizedException, or raises
\* anything else
Outcomes == {"ok", "unauthorized", "error"}

A == <<"a">>
B == <<"b">>

\* the paths a remote listing holds
RemotePaths == { <<"/", "a">>, <<"a">>, <<"/", "s", "/", "b">>, <<"/", "/", "a">> }

RECURSIVE SeqsUpTo(_, _)
SeqsUpTo(S, n) ==
    IF n = 0 THEN { <<>> }
    ELSE LET shorter == SeqsUpTo(S, n - 1)
         IN  shorter \cup { Append(q, x) : q \in { r \in shorter : Len(r) = n - 1 }, x \in S }

Store(name, files) == [name |-> name, files |-> files]

\* a project: the storage providers in the order the service returns them
Remotes ==
    LET listings == SeqsUpTo(RemotePaths, MaxFiles)
    IN  { <<Store(Osfstorage, l)>> : l \in listings }
        \cup { <<Store(Osfstorage, p[1]), Store(Github, p[2])>> :
                 p \in { q \in listings \X listings : Len(q[1]) + Len(q[2]) <= MaxFiles } }

SmallRemotes == { <<Store(Osfstorage, << <<"/", "s", "/", "b">>, <<"/", "a">> >>)>> }

\* a configuration file: absent, without an [osf] section, or with the section
\* and each of its two keys present or not
CfgFile(exists, section, username, project) ==
    [exists |-> exists, section |-> section, username |-> username, project |-> project]

NoCfgFile == CfgFile(FALSE, FALSE, None, None)

CfgFiles ==
    { NoCfgFile, CfgFile(TRUE, FALSE, None, None) }
    \cup { CfgFile(TRUE, TRUE, u, p) : u \in {None, <<>>, <<"c">>}, p \in {None, <<"q">>} }

Env(username, project, password) ==
    [username |-> username, project |-> project, password |-> password]

\* one layered configuration: the argument, environment and file layers
Cfg(au, ap, e, f) == [username |-> au, project |-> ap, env |-> e, file |-> f]

AllCfgs ==
    { Cfg(au, ap, Env(eu, ep, pw), f) :
        au \in {None, <<"u">>}, ap \in {None, <<"p">>},
        eu \in {None, <<"e">>}, ep \in {None, <<"r">>}, pw \in {None, <<"w">>},
        f \in CfgFiles }

SmallCfgs ==
    { Cfg(None, None, Env(None, None, None), NoCfgFile),
      Cfg(None, <<"p">>, Env(None, None, None), NoCfgFile),
      Cfg(<<"u">>, <<"p">>, Env(None, None, <<"w">>), NoCfgFile),
      Cfg(None, None, Env(None, <<"r">>, None), CfgFile(TRUE, TRUE, <<"c">>, None)) }

\* what getpass returns at the prompt
Typed == <<"t">>

NoArgs ==
    [username |-> None, project |-> None, output |-> None, remote |-> None,
     local |-> None, force |-> FALSE, source |-> None, destination |-> None,
     recursive |-> FALSE, target |-> None]

\* a local filesystem: regular files with their content, and directories
Fs(files, dirs) == [files |-> files, dirs |-> dirs]

Old(paths) == [p \in paths |-> "old"]

EmptyFs == Fs(Old({}), {})

FetchFss ==
    { EmptyFs, Fs(Old({A}), {}), Fs(Old({<<"d", "/", "a">>}), {<<"d">>}), Fs(Old({<<"d">>}), {}) }

FetchRemotes == { A, Osfstorage \o Slash \o A, <<"s", "/", "b">>, Github \o Slash \o A }

FetchLocals == { None, A, <<"d", "/", "a">> }

\* os.walk's result, relative to the source directory: the directories visited,
\* top first, each with the regular files in it
WalkDir(rel, files) == [rel |-> rel, files |-> files]

SubDirs == { <<"s">>, <<"f">> }

FileLists == { <<>>, <<A>>, <<A, B>> }

Walks ==
    { w \in SeqsUpTo({ WalkDir(rel, fl) : rel \in SubDirs \cup {<<>>}, fl \in FileLists }, MaxWalk) :
        /\ Len(w) >= 1
        /\ w[1].rel = <<>>
        /\ \A i, j \in 1..Len(w) : i # j => w[i].rel # w[j].rel }

SmallWalks == { <<WalkDir(<<>>, <<A>>)>> }

UploadSources == { <<"f">>, <<"f", "/">>, A }

UploadDestinations == { <<"r">>, Osfstorage \o Slash \o <<"r">>, <<".">> }

\* os.walk: the root of a visited directory
WalkRoot(source, rel) == IF rel = <<>> THEN source ELSE PathJoin(source, rel)

\* the local filesystem of an upload: the directory f with the walked tree in
\* it, and the regular file a beside it
UploadFs(w) ==
    LET dir(i) == IF w[i].rel = <<>> THEN <<"f">> ELSE <<"f", "/">> \o w[i].rel
    IN  Fs(Old({A} \cup UNION { { dir(i) \o Slash \o w[i].files[j] : j \in 1..Len(w[i].files) } :
                                  i \in 1..Len(w) }),
           { dir(i) : i \in 1..Len(w) })

\* ------------------------------------------------------------------- state
VARIABLES
    op,           \* the command of this invocation
    args,         \* the parsed command line (args.project is filled in by _setup_osf)
    env,          \* OSF_USERNAME, OSF_PROJECT, OSF_PASSWORD
    cfgFile,      \* .osfcli.config
    remote,       \* the project's storage providers and their file listings
    walk,         \* what os.walk(args.source) yields
    fs0,          \* the local filesystem when the command starts
    fs,           \* the local filesystem
    pc,           \* where the invocation is
    exc,          \* the outcome of the call made inside the current with-block
    osf,          \* the session _setup_osf returned
    storage, remote_path, local_path, dir_name,   \* locals of the commands
    si, fi, wi,   \* positions of the loops: storage, file, walked directory
    handles,      \* the local files that are open
    calls,        \* the calls made to the remote service, in order
    opens,        \* the local files opened, in order
    fcalls,       \* how many times the wrapper has called the wrapped command
    exit,         \* "running", then "ok" or the message the process ends with
    authUsername, \* the username the wrapper resolved after an authorization failure
    pbar,         \* the progress bar's count
    stdout,       \* the lines printed
    prompts       \* how many times the password prompt was shown

inputs == <<op, env, cfgFile, remote, walk, fs0>>
locals == <<storage, remote_path, local_path, dir_name>>
loops == <<si, fi, wi>>
session == <<args, osf, prompts, authUsername>>
output == <<pbar, stdout>>
vars == <<inputs, locals, loops, session, output, fs, pc, exc, handles, calls, opens,
          fcalls, exit>>

Call(kind, s, f, arg, out) == [kind |-> kind, si |-> s, fi |-> f, arg |-> arg, out |-> out]

Opened(path, mode) == [path |-> path, mode |-> mode]

\* the inputs of one invocation of command o
ArgsFor(o, rich) ==
    CASE o = "clone" ->
           { [a |-> [NoArgs EXCEPT !.output = out], fs |-> EmptyFs, remote |-> r, walk |-> <<>>] :
               out \in (IF rich THEN {None, <<"w">>} ELSE {None}),
               r \in (IF rich THEN Remotes ELSE SmallRemotes) }
      [] o = "list" ->
           { [a |-> NoArgs, fs |-> EmptyFs, remote |-> r, walk |-> <<>>] :
               r \in (IF rich THEN Remotes ELSE SmallRemotes) }
      [] o = "fetch" ->
           { [a |-> [NoArgs EXCEPT !.remote = rp, !.local = lp, !.force = force],
              fs |-> f, remote |-> r, walk |-> <<>>] :
               rp \in (IF rich THEN FetchRemotes ELSE {A}),
               lp \in (IF rich THEN FetchLocals ELSE {A}),
               force \in BOOLEAN,
               f \in (IF rich THEN FetchFss ELSE {EmptyFs}),
               r \in (IF rich THEN { x \in Remotes : Len(x) = 1 } ELSE SmallRemotes) }
      [] o = "remove" ->
           { [a |-> [NoArgs EXCEPT !.target = t], fs |-> EmptyFs, remote |-> r, walk |-> <<>>] :
               t \in (IF rich THEN FetchRemotes ELSE {A}),
               r \in (IF rich THEN { x \in Remotes : Len(x) = 1 } ELSE SmallRemotes) }
      [] o = "upload" ->
           { [a |-> [NoArgs EXCEPT !.source = src, !.destination = dst, !.recursive = rec,
                                   !.force = force],
              fs |-> UploadFs(w), remote |-> <<Store(Osfstorage, <<>>)>>, walk |-> w] :
               src \in (IF rich THEN UploadSources ELSE {<<"f">>}),
               dst \in (IF rich THEN UploadDestinations ELSE {<<"r">>}),
               rec \in BOOLEAN,
               force \in (IF rich THEN BOOLEAN ELSE {FALSE}),
               w \in (IF rich THEN Walks ELSE SmallWalks) }

InitWith(cfgs, rich) ==
    \E o \in Ops : \E c \in cfgs : \E in \in ArgsFor(o, rich) :
        /\ op = o
        /\ args = [in.a EXCEPT !.username = c.username, !.project = c.project]
        /\ env = c.env
        /\ cfgFile = c.file
        /\ remote = in.remote
        /\ walk = in.walk
        /\ fs0 = in.fs
        /\ fs = in.fs
        /\ pc = "start"
        /\ exc = "ok"
        /\ osf = OSF(None, None)
        /\ storage = None /\ remote_path = None /\ local_path = None /\ dir_name = None
        /\ si = 0 /\ fi = 0 /\ wi = 0
        /\ handles = {}
        /\ calls = <<>>
        /\ opens = <<>>
        /\ fcalls = 0
        /\ exit = "running"
        /\ authUsername = None
        /\ pbar = 0
        /\ stdout = <<>>
        /\ prompts = 0

\* every layered configuration, on one small input per command
InitConfig == InitWith(AllCfgs, FALSE)

\* the bounded inputs of every command, under a few configurations
Init == InitWith(SmallCfgs, TRUE)

\* ------------------------------------------------------------ configuration
\* config_from_file(): the keys of the [osf] section, {} when there is no file
config_from_file ==
    IF cfgFile.exists
    THEN [username |-> cfgFile.username, project |-> cfgFile.project]
    ELSE [username |-> None, project |-> None]

\* configparser raises NoSectionError for a file without an [osf] section
ConfigFileBroken == cfgFile.exists /\ ~cfgFile.section

config_from_envFileFirst(config) ==
    [username |-> IF config.username # None THEN config.username ELSE env.username,
     project |-> IF config.project # None THEN config.project ELSE env.project]

\* config_from_env(config): the environment overrides the file
config_from_env(config) ==
    [username |-> IF env.username # None THEN env.username ELSE config.username,
     project |-> IF env.project # None THEN env.project ELSE config.project]

_get_username(a, config) ==
    IF a.username = None THEN config.username ELSE a.username

\* ----------------------------------------------------------- local filesystem
IsDir(f, p) == p # <<>> /\ (AllSep(p) \/ RStripSep(p) \in f.dirs)

\* os.path.exists
Exists(f, p) == p \in DOMAIN f.files \/ IsDir(f, p)

\* makedirs(directory, exist_ok=True) fails when a regular file is in the way
MakedirsOk(f, d) == d # <<>> /\ Ancestors(d) \cap DOMAIN f.files = {}

Makedirs(f, d) == [f EXCEPT !.dirs = @ \cup Ancestors(d)]

\* open(path, 'wb') needs a file name whose directory exists and that is no directory
OpenWOk(f, path) ==
    LET parent == PathSplit(path)[1]
    IN  /\ PathSplit(path)[2] # <<>>
        /\ ~IsDir(f, path)
        /\ parent = <<>> \/ IsDir(f, parent)

\* open(path, 'wb') creates or truncates the file
OpenW(f, path) == [f EXCEPT !.files = (path :> "empty") @@ @]

\* file_.write_to(fp) fills the open file
Written(f, path) == [f EXCEPT !.files = (path :> "data") @@ @]

\* open(path, 'rb') needs a regular file
OpenROk(f, path) == path \in DOMAIN f.files

\* ------------------------------------------------------------------ control
\* where an exception raised by a remote call takes the invocation:
\* UnauthorizedException to the wrapper's except clause, anything else out
PcAfter(out, next) ==
    CASE out = "ok" -> next
      [] out = "unauthorized" -> "unauthorized"
      [] out = "error" -> "done"

ExitAfter(out) == IF out = "error" THEN "RemoteError" ELSE exit

\* leaving a with-block closes its file, however the block ends
ReleasedOnSuccess(h, out) == IF out = "ok" THEN {} ELSE h

Released(h, out) == {}

\* sys.exit(message), or an exception nothing catches
Die(message) == pc' = "done" /\ exit' = message

Files(s) == remote[s].files

\* ----------------------------------------------------------- might_need_auth
\* wrapper (line 91): the wrapped command is called
WrapperCall ==
    /\ pc = "start"
    /\ fcalls' = fcalls + 1
    /\ pc' = IF op = "fetch" THEN "fetch" ELSE "setup"
    /\ UNCHANGED <<inputs, locals, loops, session, output, fs, exc, handles, calls, opens, exit>>

\* wrapper (line 101): the command returned
WrapperReturn ==
    /\ pc = "returned"
    /\ Die("ok")
    /\ UNCHANGED <<inputs, locals, loops, session, output, fs, exc, handles, calls, opens, fcalls>>

AuthMessageAlways(username) == MsgNotAuthorized

AuthMessage(username) ==
    IF username = None THEN MsgSetUsername ELSE MsgNotAuthorized

\* wrapper (lines 92-99): UnauthorizedException was raised
AuthFailure ==
    /\ pc = "unauthorized"
    /\ IF ConfigFileBroken
       THEN Die("NoSectionError") /\ UNCHANGED authUsername
       ELSE LET config == config_from_env(config_from_file)
                username == _get_username(args, config)
            IN  /\ authUsername' = username
                /\ Die(AuthMessage(username))
    /\ UNCHANGED <<inputs, locals, loops, args, osf, prompts, output, fs, exc, handles, calls,
                   opens, fcalls>>

\* ------------------------------------------------------------------ _setup_osf
AfterSetupNoCheck(o) == "project"

AfterSetup(o) == IF o \in {"upload", "remove"} THEN "creds" ELSE "project"

_setup_osf ==
    /\ pc = "setup"
    /\ IF ConfigFileBroken
       THEN Die("NoSectionError") /\ UNCHANGED <<args, osf, prompts>>
       ELSE LET config == config_from_env(config_from_file)
                username == _get_username(args, config)
                project == IF args.project = None THEN config.project ELSE args.project
                password == IF username = None THEN None
                            ELSE IF env.password # None THEN env.password ELSE Typed
            IN  /\ args' = [args EXCEPT !.project = project]
                /\ IF project = None
                   THEN Die(MsgNoProject) /\ UNCHANGED <<osf, prompts>>
                   ELSE /\ osf' = OSF(username, password)
                        /\ prompts' = IF username # None /\ env.password = None
                                      THEN prompts + 1 ELSE prompts
                        /\ pc' = AfterSetup(op)
                        /\ exit' = exit
    /\ UNCHANGED <<inputs, locals, loops, authUsername, output, fs, exc, handles, calls, opens,
                   fcalls>>

\* upload (lines 259-261), remove (lines 309-311)
CheckCredentials ==
    /\ pc = "creds"
    /\ IF osf.username = None \/ osf.password = None
       THEN Die(IF op = "upload" THEN MsgUploadCreds ELSE MsgRemoveCreds)
       ELSE pc' = "project" /\ exit' = exit
    /\ UNCHANGED <<inputs, locals, loops, session, output, fs, exc, handles, calls, opens, fcalls>>

\* ---------------------------------------------------------------- remote lookups
\* osf.project(args.project)
ProjectLookup ==
    /\ pc = "project"
    /\ \E out \in Outcomes :
        /\ calls' = Append(calls, Call("project", 0, 0, args.project, out))
        /\ pc' = PcAfter(out, IF op \in {"clone", "list"} THEN "storages" ELSE "storage")
        /\ exit' = ExitAfter(out)
    /\ UNCHANGED <<inputs, locals, loops, session, output, fs, exc, handles, opens, fcalls>>

\* project.storages (clone line 154, list_ line 226)
ListStorages ==
    /\ pc = "storages"
    /\ \E out \in Outcomes :
        /\ calls' = Append(calls, Call("storages", 0, 0, <<>>, out))
        /\ pc' = PcAfter(out, IF remote = <<>> THEN "returned" ELSE "files")
        /\ exit' = ExitAfter(out)
    /\ si' = 1
    /\ UNCHANGED <<inputs, locals, fi, wi, session, output, fs, exc, handles, opens, fcalls>>

\* the position of the storage provider called name, 0 when the project has none
StoreIndex(name) ==
    IF \E i \in 1..Len(remote) : remote[i].name = name
    THEN CHOOSE i \in 1..Len(remote) : remote[i].name = name
    ELSE 0

\* project.storage(storage), after the split of the remote argument in upload
\* (line 264) and remove (lines 315-316)
StorageLookup ==
    /\ pc = "storage"
    /\ LET sp == CASE op = "upload" -> split_storage(args.destination)
                   [] op = "remove" ->
                        LET t == split_storage(args.target)
                        IN  <<t[1], Replace(t[2], OsSep, Slash)>>
                   [] OTHER -> <<storage, remote_path>>
           idx == StoreIndex(sp[1])
       IN  /\ storage' = sp[1]
           /\ remote_path' = sp[2]
           /\ \E out \in Outcomes :
                /\ calls' = Append(calls, Call("storage", idx, 0, sp[1], out))
                /\ IF out = "ok" /\ idx = 0
                   THEN Die("RuntimeError") /\ si' = si
                   ELSE /\ pc' = PcAfter(out, IF op = "upload" THEN "upload" ELSE "files")
                        /\ exit' = ExitAfter(out)
                        /\ si' = IF out = "ok" THEN idx ELSE si
    /\ UNCHANGED <<inputs, local_path, dir_name, fi, wi, session, output, fs, exc, handles,
                   opens, fcalls>>

\* store.files: the listing of the current storage provider
ListFiles ==
    /\ pc = "files"
    /\ \E out \in Outcomes :
        /\ calls' = Append(calls, Call("files", si, 0, remote[si].name, out))
        /\ pc' = PcAfter(out, CASE op = "clone" -> "clone_file"
                                [] op = "list" -> "list_file"
                                [] op = "fetch" -> "fetch_scan"
                                [] op = "remove" -> "remove_scan")
        /\ exit' = ExitAfter(out)
    /\ fi' = 1
    /\ UNCHANGED <<inputs, locals, si, wi, session, output, fs, exc, handles, opens, fcalls>>

\* the listing of a storage provider is exhausted (clone, list_)
StoreDone ==
    /\ pc \in {"clone_file", "list_file"}
    /\ fi > Len(Files(si))
    /\ si' = si + 1
    /\ pc' = IF si + 1 > Len(remote) THEN "returned" ELSE "files"
    /\ UNCHANGED <<inputs, locals, fi, wi, session, output, fs, exc, handles, calls, opens,
                   fcalls, exit>>

\* the listing is exhausted (fetch, remove)
ScanDone ==
    /\ pc \in {"fetch_scan", "remove_scan"}
    /\ fi > Len(Files(si))
    /\ pc' = "returned"
    /\ UNCHANGED <<inputs, locals, loops, session, output, fs, exc, handles, calls, opens,
                   fcalls, exit>>

\* ----------------------------------------------------------------------- clone
\* clone (lines 149-151)
output_dir == IF args.output # None THEN args.output ELSE args.project

\* clone (lines 155-164): where the remote file path of storage provider name lands
ClonePath(name, filePath) ==
    LET prefix == Replace(PathJoin(output_dir, name), OsSep, Slash)
        path == StripLeadingSlash(Replace(filePath, OsSep, Slash))
    IN  Replace(PathJoin(prefix, path), OsSep, Slash)

\* clone (lines 158-169): the directories are made and the local file is opened
CloneOpen ==
    /\ pc = "clone_file"
    /\ fi <= Len(Files(si))
    /\ LET path == ClonePath(remote[si].name, Files(si)[fi])
           directory == Replace(PathSplit(path)[1], OsSep, Slash)
       IN  /\ local_path' = path
           /\ IF ~MakedirsOk(fs, directory)
              THEN Die("OSError") /\ UNCHANGED <<fs, handles, opens>>
              ELSE IF ~OpenWOk(Makedirs(fs, directory), path)
              THEN Die("OSError") /\ fs' = Makedirs(fs, directory) /\ UNCHANGED <<handles, opens>>
              ELSE /\ fs' = OpenW(Makedirs(fs, directory), path)
                   /\ handles' = handles \cup {path}
                   /\ opens' = Append(opens, Opened(path, "wb"))
                   /\ pc' = "clone_write"
                   /\ exit' = exit
    /\ UNCHANGED <<inputs, storage, remote_path, dir_name, loops, session, output, exc, calls,
                   fcalls>>

\* clone (line 170): file_.write_to(f)
CloneWriteTo ==
    /\ pc = "clone_write"
    /\ \E out \in Outcomes :
        /\ calls' = Append(calls, Call("write_to", si, fi, local_path, out))
        /\ exc' = out
        /\ fs' = IF out = "ok" THEN Written(fs, local_path) ELSE fs
    /\ pc' = "clone_close"
    /\ UNCHANGED <<inputs, locals, loops, session, output, handles, opens, fcalls, exit>>

\* clone (lines 169-172): the with-block is left, the progress bar advances
CloneClose ==
    /\ pc = "clone_close"
    /\ handles' = Released(handles, exc)
    /\ pc' = PcAfter(exc, "clone_file")
    /\ exit' = ExitAfter(exc)
    /\ fi' = IF exc = "ok" THEN fi + 1 ELSE fi
    /\ pbar' = IF exc = "ok" THEN pbar + 1 ELSE pbar
    /\ UNCHANGED <<inputs, locals, si, wi, session, stdout, fs, exc, calls, opens, fcalls>>

\* ----------------------------------------------------------------------- list_
\* list_ (lines 229-234)
ListPrint ==
    /\ pc = "list_file"
    /\ fi <= Len(Files(si))
    /\ LET path == StripLeadingSlash(Replace(Files(si)[fi], OsSep, Slash))
       IN  stdout' = Append(stdout, Replace(PathJoin(remote[si].name, path), OsSep, Slash))
    /\ fi' = fi + 1
    /\ UNCHANGED <<inputs, locals, si, wi, session, pbar, fs, pc, exc, handles, calls, opens,
                   fcalls, exit>>

\* ----------------------------------------------------------------------- fetch
ConflictNever(f, path, force) == FALSE

\* fetch (line 195): an existing local path stops the command unless forced
Conflict(f, path, force) == Exists(f, path) /\ ~force

\* fetch (lines 187-201): the remote argument is split, the local path is
\* settled and checked, and its directory is made
FetchPrepare ==
    /\ pc = "fetch"
    /\ LET sp == split_storage(args.remote)
       IN  /\ storage' = sp[1]
           /\ remote_path' = sp[2]
           /\ IF args.local = None
              THEN \* line 190: None has no replace
                   Die("AttributeError") /\ UNCHANGED <<local_path, fs>>
              ELSE LET replaced == Replace(args.local, OsSep, Slash)
                       path == IF replaced = None
                               THEN Replace(PathSplit(sp[2])[2], OsSep, Slash)
                               ELSE replaced
                       directory == Replace(PathSplit(path)[1], OsSep, Slash)
                   IN  /\ local_path' = path
                       /\ IF Conflict(fs, path, args.force)
                          THEN Die(MsgExists) /\ fs' = fs
                          ELSE IF directory = <<>>
                          THEN pc' = "setup" /\ exit' = exit /\ fs' = fs
                          ELSE IF ~MakedirsOk(fs, directory)
                          THEN Die("OSError") /\ fs' = fs
                          ELSE pc' = "setup" /\ exit' = exit /\ fs' = Makedirs(fs, directory)
    /\ UNCHANGED <<inputs, dir_name, loops, session, output, exc, handles, calls, opens, fcalls>>

\* fetch (line 208), remove (line 319)
Matches(filePath, requested) == norm_remote_path(filePath) = requested

\* fetch (lines 207-208): an entry that is not the requested file
FetchSkip ==
    /\ pc = "fetch_scan"
    /\ fi <= Len(Files(si))
    /\ ~Matches(Files(si)[fi], remote_path)
    /\ fi' = fi + 1
    /\ UNCHANGED <<inputs, locals, si, wi, session, output, fs, pc, exc, handles, calls, opens,
                   fcalls, exit>>

\* fetch (lines 208-209): the requested file is found and the local file opened
FetchOpen ==
    /\ pc = "fetch_scan"
    /\ fi <= Len(Files(si))
    /\ Matches(Files(si)[fi], remote_path)
    /\ IF ~OpenWOk(fs, local_path)
       THEN Die("OSError") /\ UNCHANGED <<fs, handles, opens>>
       ELSE /\ fs' = OpenW(fs, local_path)
            /\ handles' = handles \cup {local_path}
            /\ opens' = Append(opens, Opened(local_path, "wb"))
            /\ pc' = "fetch_write"
            /\ exit' = exit
    /\ UNCHANGED <<inputs, locals, loops, session, output, exc, calls, fcalls>>

\* fetch (line 210): file_.write_to(fp)
FetchWriteTo ==
    /\ pc = "fetch_write"
    /\ \E out \in Outcomes :
        /\ calls' = Append(calls, Call("write_to", si, fi, local_path, out))
        /\ exc' = out
        /\ fs' = IF out = "ok" THEN Written(fs, local_path) ELSE fs
    /\ pc' = "fetch_close"
    /\ UNCHANGED <<inputs, locals, loops, session, output, handles, opens, fcalls, exit>>

FetchCloseNoBreak ==
    /\ pc = "fetch_close"
    /\ handles' = Released(handles, exc)
    /\ pc' = PcAfter(exc, "fetch_scan")
    /\ exit' = ExitAfter(exc)
    /\ fi' = fi + 1
    /\ UNCHANGED <<inputs, locals, si, wi, session, output, fs, exc, calls, opens, fcalls>>

\* fetch (lines 209-213): the with-block is left, and the loop too
FetchClose ==
    /\ pc = "fetch_close"
    /\ handles' = Released(handles, exc)
    /\ pc' = PcAfter(exc, "returned")
    /\ exit' = ExitAfter(exc)
    /\ fi' = fi
    /\ UNCHANGED <<inputs, locals, si, wi, session, output, fs, exc, calls, opens, fcalls>>

\* ---------------------------------------------------------------------- remove
\* remove (lines 318-319): an entry that is not the target
RemoveSkip ==
    /\ pc = "remove_scan"
    /\ fi <= Len(Files(si))
    /\ ~Matches(Files(si)[fi], remote_path)
    /\ fi' = fi + 1
    /\ UNCHANGED <<inputs, locals, si, wi, session, output, fs, pc, exc, handles, calls, opens,
                   fcalls, exit>>

\* remove (lines 319-320): f.remove()
RemoveFile ==
    /\ pc = "remove_scan"
    /\ fi <= Len(Files(si))
    /\ Matches(Files(si)[fi], remote_path)
    /\ \E out \in Outcomes :
        /\ calls' = Append(calls, Call("remove", si, fi, Files(si)[fi], out))
        /\ pc' = PcAfter(out, "remove_scan")
        /\ exit' = ExitAfter(out)
        /\ fi' = IF out = "ok" THEN fi + 1 ELSE fi
    /\ UNCHANGED <<inputs, locals, si, wi, session, output, fs, exc, handles, opens, fcalls>>

\* ---------------------------------------------------------------------- upload
\* upload (lines 267-273, 294-295)
UploadBegin ==
    /\ pc = "upload"
    /\ IF args.recursive
       THEN IF ~IsDir(fs, args.source)
            THEN Die("RuntimeError") /\ UNCHANGED <<dir_name, remote_path, wi, fi>>
            ELSE /\ dir_name' = PathSplit(args.source)[2]
                 /\ wi' = 1
                 /\ fi' = 1
                 /\ pc' = "upload_file"
                 /\ UNCHANGED <<remote_path, exit>>
       ELSE /\ remote_path' = IF remote_path = <<".">> THEN PathSplit(args.source)[2]
                              ELSE remote_path
            /\ pc' = "upload_single"
            /\ UNCHANGED <<dir_name, wi, fi, exit>>
    /\ UNCHANGED <<inputs, storage, local_path, si, session, output, fs, exc, handles, calls,
                   opens, fcalls>>

\* upload (lines 275-284): the walk moves to the next directory, or ends
WalkNext ==
    /\ pc = "upload_file"
    /\ IF wi > Len(walk) THEN TRUE ELSE fi > Len(walk[wi].files)
    /\ IF wi > Len(walk)
       THEN pc' = "returned" /\ UNCHANGED <<wi, fi>>
       ELSE pc' = pc /\ wi' = wi + 1 /\ fi' = 1
    /\ UNCHANGED <<inputs, locals, si, session, output, fs, exc, handles, calls, opens, fcalls,
                   exit>>

\* upload (lines 285-287): the walked file is opened for reading
UploadOpen ==
    /\ pc = "upload_file"
    /\ wi <= Len(walk)
    /\ fi <= Len(walk[wi].files)
    /\ LET root == WalkRoot(args.source, walk[wi].rel)
           path == Replace(PathJoin(root, walk[wi].files[fi]), OsSep, Slash)
       IN  /\ local_path' = path
           /\ IF ~OpenROk(fs, path)
              THEN Die("OSError") /\ UNCHANGED <<handles, opens>>
              ELSE /\ handles' = handles \cup {path}
                   /\ opens' = Append(opens, Opened(path, "rb"))
                   /\ pc' = "upload_create"
                   /\ exit' = exit
    /\ UNCHANGED <<inputs, storage, remote_path, dir_name, loops, session, output, fs, exc,
                   calls, fcalls>>

\* upload (line 296): the source file is opened for reading
UploadSingleOpen ==
    /\ pc = "upload_single"
    /\ local_path' = args.source
    /\ IF ~OpenROk(fs, args.source)
       THEN Die("OSError") /\ UNCHANGED <<handles, opens>>
       ELSE /\ handles' = handles \cup {args.source}
            /\ opens' = Append(opens, Opened(args.source, "rb"))
            /\ pc' = "upload_create"
            /\ exit' = exit
    /\ UNCHANGED <<inputs, storage, remote_path, dir_name, loops, session, output, fs, exc,
                   calls, fcalls>>

\* upload (lines 279-282): the directories walked into below the source
subdir_path(source, root) ==
    StripLeadingSlash(Replace(Replace(root, source, <<>>), OsSep, Slash))

\* upload (lines 289-290, 297): the remote path of the file being uploaded
UploadName ==
    IF args.recursive
    THEN PathJoin4(remote_path, dir_name,
                   subdir_path(args.source, WalkRoot(args.source, walk[wi].rel)),
                   walk[wi].files[fi])
    ELSE remote_path

\* upload (lines 291, 297): store.create_file(name, fp, update=args.force)
UploadCreateFile ==
    /\ pc = "upload_create"
    /\ \E out \in Outcomes :
        /\ calls' = Append(calls, Call("create_file", wi, fi, UploadName, out))
        /\ exc' = out
    /\ pc' = "upload_close"
    /\ UNCHANGED <<inputs, locals, loops, session, output, fs, handles, opens, fcalls, exit>>

\* upload (lines 287-291, 296-297): the with-block is left
UploadClose ==
    /\ pc = "upload_close"
    /\ handles' = Released(handles, exc)
    /\ pc' = PcAfter(exc, IF args.recursive THEN "upload_file" ELSE "returned")
    /\ exit' = ExitAfter(exc)
    /\ fi' = IF exc = "ok" /\ args.recursive THEN fi + 1 ELSE fi
    /\ UNCHANGED <<inputs, locals, si, wi, session, output, fs, exc, calls, opens, fcalls>>

\* ------------------------------------------------------------- specification
Next ==
    \/ WrapperCall
    \/ WrapperReturn
    \/ AuthFailure
    \/ _setup_osf
    \/ CheckCredentials
    \/ ProjectLookup
    \/ ListStorages
    \/ StorageLookup
    \/ ListFiles
    \/ StoreDone
    \/ ScanDone
    \/ CloneOpen
    \/ CloneWriteTo
    \/ CloneClose
    \/ ListPrint
    \/ FetchPrepare
    \/ FetchSkip
    \/ FetchOpen
    \/ FetchWriteTo
    \/ FetchClose
    \/ RemoveSkip
    \/ RemoveFile
    \/ UploadBegin
    \/ WalkNext
    \/ UploadOpen
    \/ UploadSingleOpen
    \/ UploadCreateFile
    \/ UploadClose

Spec == Init /\ [][Next]_vars

SpecConfig == InitConfig /\ [][Next]_vars

TypeOK ==
    /\ pc \in {"start", "fetch", "setup", "creds", "project", "storages", "storage", "files",
               "clone_file", "clone_write", "clone_close", "list_file", "fetch_scan",
               "fetch_write", "fetch_close", "remove_scan", "upload", "upload_file",
               "upload_single", "upload_create", "upload_close", "returned", "unauthorized",
               "done"}
    /\ exc \in Outcomes
    /\ (exit = "running") = (pc # "done")

\* ------------------------------------------------------------------ claims
\* the layers of the configuration, read from the inputs of the invocation
FileUsername == IF cfgFile.exists THEN cfgFile.username ELSE None

FileProject == IF cfgFile.exists THEN cfgFile.project ELSE None

ResolvedUsername ==
    IF args.username # None THEN args.username
    ELSE IF env.username # None THEN env.username
    ELSE FileUsername

ResolvedProject ==
    IF args.project # None THEN args.project
    ELSE IF env.project # None THEN env.project
    ELSE FileProject

ResolvedPassword ==
    IF ResolvedUsername = None THEN None
    ELSE IF env.password # None THEN env.password
    ELSE Typed

\* _setup_osf has returned a session
SessionUp == pc \in {"creds", "project"} \/ calls # <<>>

Last(q) == q[Len(q)]

Unauthorized == calls # <<>> /\ Last(calls).out = "unauthorized"

\* C10: the username is the argument if given, else the environment's if set,
\* else the configuration file's, else none; the session is set up with it and
\* an authorization failure is classified with it.
C10_UsernamePrecedence ==
    /\ SessionUp => osf.username = ResolvedUsername
    /\ exit \in {MsgSetUsername, MsgNotAuthorized} =>
         /\ authUsername = ResolvedUsername
         /\ authUsername = osf.username

\* an authorization failure classified with the environment's username, which
\* hides the file's
C10_Witness ==
    /\ exit = MsgNotAuthorized
    /\ args.username = None
    /\ authUsername = <<"e">>
    /\ FileUsername = <<"c">>

\* C4: the wrapper calls the command once; a command that returns ends the
\* invocation normally; after UnauthorizedException nothing more is called and
\* the invocation ends with the 'set a username' message when no username
\* resolves and with the 'not authorized' message when one does.
C4_SingleShotClassification ==
    /\ fcalls <= 1
    /\ pc # "start" => fcalls = 1
    /\ \A i \in 1..Len(calls) : calls[i].out = "unauthorized" => i = Len(calls)
    /\ (pc = "done" /\ Unauthorized) =>
         exit = IF ResolvedUsername = None THEN MsgSetUsername ELSE MsgNotAuthorized
    /\ exit \in {MsgSetUsername, MsgNotAuthorized} => Unauthorized
    /\ exit = "ok" => \A i \in 1..Len(calls) : calls[i].out = "ok"

\* an authorization failure of the second remote call, with no username
C4_Witness ==
    /\ exit = MsgSetUsername
    /\ fcalls = 1
    /\ Len(calls) = 2
    /\ ResolvedUsername = None

\* the command is upload or remove and no username and password are available
MissingCredentials ==
    /\ op \in {"upload", "remove"}
    /\ ResolvedUsername = None \/ ResolvedPassword = None

CredentialsMessage == IF op = "upload" THEN MsgUploadCreds ELSE MsgRemoveCreds

\* C8 as claimed: upload or remove without username and password ends with the
\* missing-credentials message, before any remote call (the configuration
\* file, if there is one, being well formed).
C8_Claimed ==
    (MissingCredentials /\ ~ConfigFileBroken /\ pc = "done") =>
        /\ exit = CredentialsMessage
        /\ calls = <<>>

\* C8, amended: upload or remove without username and password makes no
\* remote call and ends with the missing-credentials message when
\* _setup_osf returns a session; _setup_osf ends the invocation first, with
\* the configuration error, when no project is specified (and with
\* configparser's error when the configuration file has no [osf] section).
C8_NoRemoteCallWithoutCredentials ==
    MissingCredentials =>
        /\ calls = <<>>
        /\ pc \in {"start", "setup", "creds", "done"}
        /\ pc = "done" =>
             exit = IF ConfigFileBroken THEN "NoSectionError"
                    ELSE IF ResolvedProject = None THEN MsgNoProject
                    ELSE CredentialsMessage

\* an upload with a project and no username, ended by the credentials check
C8_Witness ==
    /\ op = "upload"
    /\ exit = MsgUploadCreds
    /\ ResolvedProject # None
    /\ ResolvedUsername = None

\* the remote calls that transfer a file's bytes
IsTransfer(c) == c.kind \in {"write_to", "create_file"}

Transfers == SelectSeq(calls, IsTransfer)

IsRemove(c) == c.kind = "remove"

Removes == SelectSeq(calls, IsRemove)

\* fetch's destination: the local argument, else the name of the remote file
Destination ==
    IF args.local # None THEN args.local
    ELSE PathSplit(split_storage(args.remote)[2])[2]

\* the destination exists when fetch starts, and overwriting is not forced
Blocked == op = "fetch" /\ Exists(fs0, Destination) /\ ~args.force

\* C1: a fetch whose destination exists and is not forced ends with a message
\* and a non-zero exit with the filesystem as it was, no local file opened and
\* no remote call made; with the force flag an existing destination never ends
\* the fetch.
C1_FetchConflictAborts ==
    /\ Blocked =>
         /\ pc \in {"start", "fetch", "done"}
         /\ fs = fs0
         /\ opens = <<>>
         /\ calls = <<>>
         /\ pc = "done" => exit \notin {"ok", "running"}
         /\ (pc = "done" /\ args.local # None) => exit = MsgExists
    /\ (op = "fetch" /\ args.force) => exit # MsgExists

\* a fetch onto the existing file a, not forced, has ended with the message
C1_Witness ==
    /\ Blocked
    /\ args.local = A
    /\ exit = MsgExists
    /\ fs.files[A] = "old"

\* the requested path and the listing that fetch and remove search
Requested ==
    IF op = "fetch" THEN split_storage(args.remote) ELSE split_storage(args.target)

Listing == remote[StoreIndex(Requested[1])].files

\* the positions of the entries whose normalized path is the requested path
MatchIdx ==
    IF StoreIndex(Requested[1]) = 0 THEN {}
    ELSE { i \in 1..Len(Listing) : norm_remote_path(Listing[i]) = Requested[2] }

Min(S) == CHOOSE x \in S : \A y \in S : x <= y

\* C3: fetch transfers the first matching entry of the listing and nothing
\* else, and stops scanning there; remove calls remove on the matching entries
\* in listing order. A fetch that returns has transferred 1 entry when k >= 1
\* match and none when none does; a remove that returns has removed all k.
C3_FirstMatchVersusAllMatches ==
    /\ op = "fetch" =>
         /\ Len(Transfers) <= 1
         /\ \A i \in 1..Len(Transfers) :
              MatchIdx # {} /\ Transfers[i].fi = Min(MatchIdx)
         /\ exit = "ok" =>
              /\ Len(Transfers) = IF MatchIdx = {} THEN 0 ELSE 1
              /\ MatchIdx # {} => fi = Min(MatchIdx)
         /\ Len(Removes) = 0
    /\ op = "remove" =>
         /\ \A i \in 1..Len(Removes) : Removes[i].fi \in MatchIdx
         /\ \A i, j \in 1..Len(Removes) : i < j => Removes[i].fi < Removes[j].fi
         /\ exit = "ok" =>
              /\ Len(Removes) = Cardinality(MatchIdx)
              /\ { Removes[i].fi : i \in 1..Len(Removes) } = MatchIdx
         /\ Len(Transfers) = 0

\* a fetch that returned after one transfer, from a listing with two matches
C3_Witness ==
    /\ op = "fetch"
    /\ exit = "ok"
    /\ Cardinality(MatchIdx) = 2
    /\ Len(Transfers) = 1

\* inside a with-block, before and after the transfer
Transferring == pc \in {"clone_write", "fetch_write", "upload_create"}

Closing == pc \in {"clone_close", "fetch_close", "upload_close"}

\* C9: at most one file is open; a file is open only between its opening and
\* the end of its with-block, during which exactly one transfer is made with
\* it; outside (between transfers, in the wrapper's handling of an
\* authorization failure, at the end) no file is open, however the transfer
\* ended.
C9_ScopedHandles ==
    /\ Cardinality(handles) <= 1
    /\ Transferring =>
         /\ handles = {local_path}
         /\ Last(opens).path = local_path
         /\ Len(Transfers) = Len(opens) - 1
    /\ Closing =>
         /\ handles = {local_path}
         /\ Len(Transfers) = Len(opens)
         /\ Last(Transfers).out = exc
    /\ ~(Transferring \/ Closing) =>
         /\ handles = {}
         /\ Len(Transfers) = Len(opens)

\* the second transfer failed for lack of authorization; the wrapper has the
\* exception and no file is open
C9_Witness ==
    /\ pc = "unauthorized"
    /\ Len(opens) = 2
    /\ Last(calls).kind \in {"write_to", "create_file"}
    /\ Last(calls).out = "unauthorized"
    /\ handles = {}

\* the non-empty segments joined with "/"
RECURSIVE JoinSegs(_)
JoinSegs(segs) ==
    IF segs = <<>> THEN <<>>
    ELSE LET rest == JoinSegs(Tail(segs))
         IN  IF Head(segs) = <<>> THEN rest
             ELSE IF rest = <<>> THEN Head(segs)
             ELSE Head(segs) \o Slash \o rest

\* remotePrefix / localDirBaseName / subdirectory / fileName for the f-th file
\* of the w-th walked directory; the base name is left out when the source
\* ends in a separator
ExpectedRemote(w, f) ==
    LET base == IF EndsWith(args.source, Slash) THEN <<>> ELSE PathSplit(args.source)[2]
    IN  JoinSegs(<<split_storage(args.destination)[2], base, walk[w].rel, walk[w].files[f]>>)

RECURSIVE SumLens(_)
SumLens(q) == IF q = <<>> THEN 0 ELSE Len(Head(q).files) + SumLens(Tail(q))

\* C2 as claimed: a recursive upload that returns has made exactly one
\* create_file call per regular file of the tree, at remotePrefix /
\* localDirBaseName / subdirectory / fileName, and no two files share a remote
\* path.
C2_Claimed ==
    (op = "upload" /\ args.recursive /\ exit = "ok") =>
        /\ Len(Transfers) = SumLens(walk)
        /\ \A i \in 1..Len(Transfers) :
             Transfers[i].arg = ExpectedRemote(Transfers[i].si, Transfers[i].fi)
        /\ \A i, j \in 1..Len(Transfers) :
             i # j => Transfers[i].arg # Transfers[j].arg

\* the files of the project in provider order, then file order: <<store, file>>
RECURSIVE FilesFrom(_, _)
FilesFrom(s, f) ==
    IF s > Len(remote) THEN <<>>
    ELSE IF f > Len(remote[s].files) THEN FilesFrom(s + 1, 1)
    ELSE <<<<s, f>>>> \o FilesFrom(s, f + 1)

\* localRoot/providerName/
CloneRoot(s) == output_dir \o Slash \o remote[s].name \o Slash

\* C5 as claimed: clone opens one local file per remote file, in provider
\* order then file order, at localRoot/providerName/<path without its leading
\* slash>, under localRoot/providerName, its directory made before; a clone
\* that returns has written every remote file.
C5_Claimed ==
    op = "clone" =>
        /\ Len(opens) <= Len(FilesFrom(1, 1))
        /\ \A i \in 1..Len(opens) :
             LET s == FilesFrom(1, 1)[i][1]
                 f == FilesFrom(1, 1)[i][2]
             IN  /\ opens[i].path = CloneRoot(s) \o StripLeadingSlash(remote[s].files[f])
                 /\ StartsWith(opens[i].path, CloneRoot(s))
                 /\ IsDir(fs, PathSplit(opens[i].path)[1])
        /\ exit = "ok" => Len(opens) = Len(FilesFrom(1, 1))

\* C6 as claimed: a fetch without a local argument goes on with the name of
\* the remote file as its local path.
C6_Claimed ==
    (op = "fetch" /\ args.local = None /\ pc \notin {"start", "fetch"}) =>
        /\ local_path = PathSplit(remote_path)[2]
        /\ exit # "AttributeError"

\* C7 as claimed: when the invocation ends with the configuration error for
\* want of a project, no remote call has been made and the local filesystem
\* is as it was.
C7_Claimed ==
    (ResolvedProject = None /\ exit = MsgNoProject) =>
        /\ calls = <<>>
        /\ opens = <<>>
        /\ fs = fs0

====
